---- MODULE Spec2Model ----
(***************************************************************************)
(* Model of generate_matchups (src/app.py), the matchup heuristic of the   *)
(* badminton scheduler, together with the part of the roster it is fed     *)
(* from.  A Python str is a sequence of one-character strings, a tuple or  *)
(* a list is a sequence, a dict is a function, a set is a set.             *)
(***************************************************************************)
EXTENDS Integers, Sequences, FiniteSets, TLC

(***************************************************************************)
(* Bounds of the model.                                                    *)
(***************************************************************************)
\* largest roster handed to generate_matchups
MaxPlayers == 8
\* largest num_rounds
MaxRounds == 4
\* largest num_courts
MaxCourts == 2
\* largest min_rest
MaxRest == 2
\* trial budget explored per court slot (range(100) in the code)
MaxTrials == 2
\* the first MaxLeavers rows of the sheet may be marked EarlyLeave
MaxLeavers == 1
\* largest Load of a call (see Load): deep runs of small pools, one round of
\* the large ones
MaxLoad == 24
\* the same for the calls that run under the fairness condition of SpecFair
MaxFairLoad == 13
\* the same for a call that is interleaved with a second call, and for the
\* second call
MaxTwoLoad == 12
MaxOtherLoad == 7
\* the same for the calls of two or more rounds, whatever their min_rest (a
\* round weighs 2 more there)
MaxRestLoad == 28

(***************************************************************************)
(* Strings.                                                                *)
(***************************************************************************)
\* code points of the characters that occur in the model
Ord(c) ==
    CASE c = "\t" -> 9
      [] c = " " -> 32
      [] c = "&" -> 38
      [] c = "0" -> 48
      [] c = "1" -> 49
      [] c = "2" -> 50
      [] c = "3" -> 51
      [] c = "4" -> 52
      [] c = "5" -> 53
      [] c = "6" -> 54
      [] c = "7" -> 55
      [] c = "8" -> 56
      [] c = "9" -> 57
      [] c = "A" -> 65
      [] c = "B" -> 66
      [] c = "C" -> 67
      [] c = "D" -> 68
      [] c = "E" -> 69
      [] c = "F" -> 70
      [] c = "G" -> 71
      [] c = "H" -> 72
      [] c = "I" -> 73
      [] c = "Y" -> 89

\* str.isspace for one character
IsSpace(c) == Ord(c) \in (9..13) \cup (28..32)

\* str.isprintable for one character
IsPrintable(c) == Ord(c) >= 32 /\ Ord(c) # 127

\* str < str: lexicographic by code point, a proper prefix is smaller
RECURSIVE StrLess(_, _)
StrLess(a, b) ==
    IF b = <<>> THEN FALSE
    ELSE IF a = <<>> THEN TRUE
    ELSE IF Head(a) # Head(b) THEN Ord(Head(a)) < Ord(Head(b))
    ELSE StrLess(Tail(a), Tail(b))

RECURSIVE LStrip(_)
LStrip(s) == IF s # <<>> /\ IsSpace(Head(s)) THEN LStrip(Tail(s)) ELSE s

RECURSIVE RStrip(_)
RStrip(s) ==
    IF s # <<>> /\ IsSpace(s[Len(s)]) THEN RStrip(SubSeq(s, 1, Len(s) - 1)) ELSE s

\* str.strip()
Strip(s) == RStrip(LStrip(s))

\* "".join(ch for ch in str(name).strip() if ch.isprintable())
clean_name(name) == SelectSeq(Strip(name), IsPrintable)

\* sep.join(parts)
RECURSIVE Join(_, _)
Join(sep, parts) ==
    IF parts = <<>> THEN <<>>
    ELSE IF Len(parts) = 1 THEN parts[1]
    ELSE parts[1] \o sep \o Join(sep, Tail(parts))

Digits == <<"0", "1", "2", "3", "4", "5", "6", "7", "8", "9">>

\* str(n) for n >= 0
RECURSIVE Str(_)
Str(n) == IF n < 10 THEN <<Digits[n + 1]>> ELSE Str(n \div 10) \o <<Digits[(n % 10) + 1]>>

\* the literals "BYE" and " & "
BYE == <<"B", "Y", "E">>
AMP == <<" ", "&", " ">>

(***************************************************************************)
(* Lists.                                                                  *)
(***************************************************************************)
Range(s) == {s[i] : i \in DOMAIN s}

\* sorted(names)
RECURSIVE Sorted(_)
Sorted(s) ==
    IF s = <<>> THEN <<>>
    ELSE LET rest == Sorted(Tail(s))
             k == Cardinality({i \in DOMAIN rest : StrLess(rest[i], Head(s))})
         IN SubSeq(rest, 1, k) \o <<Head(s)>> \o SubSeq(rest, k + 1, Len(rest))

\* faulty variant: the pair is kept in the order sampled
SortPair_Unsorted(a, b) == <<a, b>>

\* tuple(sorted((a, b)))
SortPair(a, b) == IF StrLess(b, a) THEN <<b, a>> ELSE <<a, b>>

\* list(itertools.combinations(seq, 2))
Combinations2(s) ==
    {<<s[pr[1]], s[pr[2]]>> : pr \in {q \in (DOMAIN s) \X (DOMAIN s) : q[1] < q[2]}}

\* list.sort(key=..., reverse=True): descending by key, equal keys keep their order
\* (the element at index i moves behind every element with a greater key and
\* behind the earlier elements with an equal key)
SortDescBy(s, key) ==
    LET Place(i) == 1 + Cardinality({j \in DOMAIN s :
                            \/ key[s[j]] > key[s[i]]
                            \/ key[s[j]] = key[s[i]] /\ j < i})
    IN [k \in DOMAIN s |-> s[CHOOSE i \in DOMAIN s : Place(i) = k]]

\* faulty variant: the first player of the list is skipped
Unused_SkipsFirst(avail, used) ==
    LET Free(p) == p \notin used
    IN IF avail = <<>> THEN <<>> ELSE SelectSeq(Tail(avail), Free)

\* [p for p in available_players if p not in used_players]
Unused(avail, used) == LET Free(p) == p \notin used IN SelectSeq(avail, Free)

\* the ways random.sample(cands, 4) can draw: four different positions, in any order
Draws(cands) ==
    {t \in (DOMAIN cands) \X (DOMAIN cands) \X (DOMAIN cands) \X (DOMAIN cands) :
        /\ t[1] # t[2] /\ t[1] # t[3] /\ t[1] # t[4]
        /\ t[2] # t[3] /\ t[2] # t[4] /\ t[3] # t[4]}

\* the sample of one draw
Pick(cands, t) == <<cands[t[1]], cands[t[2]], cands[t[3]], cands[t[4]]>>

\* every value random.sample(cands, 4) can return
Sample4(cands) == {Pick(cands, t) : t \in Draws(cands)}

(***************************************************************************)
(* Program constants.                                                      *)
(***************************************************************************)
\* pair_usage[team] * 10
TEAM_WEIGHT == 10
\* match_history[match] * 5
MATCH_WEIGHT == 5
\* ... else 20
REST_PENALTY == 20
\* p1, p2, p3, p4 = random.sample(candidates, 4)
GROUP_SIZE == 4

\* best_group = None, best_score = float("inf")
None == <<>>
Inf == -1

\* no second call has been made
NoCall == [pc |-> "none"]

\* the rows of the sheet the model draws its rosters from (raw, uncleaned names)
RawNames ==
    << <<"B">>, <<" ", "A">>, <<"D", "\t">>, <<"C">>, <<"F">>, <<"E", " ">>,
       <<"H">>, <<"\t", "G">>, <<"I">>, <<"A", "\t", "B">> >>

(***************************************************************************)
(* State.                                                                  *)
(***************************************************************************)
VARIABLES
    sheet,              \* the records of the sheet: Name, EarlyLeave
    players,            \* generate_matchups: players, cleaned
    num_rounds,
    num_courts,
    min_rest,
    pair_usage,         \* dict: team -> count, keyed by all_pairs
    match_history,      \* defaultdict(int): match -> count (absent = 0)
    last_played_round,  \* dict: player -> round index
    all_rounds,         \* the rows of the result
    r,                  \* for r in range(num_rounds)
    available_players,
    matches,
    used_players,
    candidates,
    best_group,
    best_score,
    trial,              \* the number of trials made for the current court slot
    pc,                 \* "for", "while", "trial", "done", "error"
    samples,            \* the values of sample in the trials of the court slot
    suspended           \* the locals of a second call that is not running now

vars ==
    <<sheet, players, num_rounds, num_courts, min_rest, pair_usage, match_history,
      last_played_round, all_rounds, r, available_players, matches, used_players,
      candidates, best_group, best_score, trial, pc, samples, suspended>>

inputs == <<sheet, players, num_rounds, num_courts, min_rest>>
slot == <<candidates, best_group, best_score, trial, samples>>
histories == <<pair_usage, match_history, last_played_round>>

(***************************************************************************)
(* generate_matchups: the expressions of its body.                         *)
(***************************************************************************)
\* faulty variant: the pairs are precomputed from the unsorted list
all_pairs_Unsorted(ps) == Combinations2(ps)

\* all_pairs = list(itertools.combinations(sorted(players), 2))
all_pairs(ps) == Combinations2(Sorted(ps))

\* team1 = tuple(sorted((p1, p2))), team2 = tuple(sorted((p3, p4)))
team1(sample) == SortPair(sample[1], sample[2])
team2(sample) == SortPair(sample[3], sample[4])

\* faulty variant: the match key is the ordered pair of the two teams
match_Ordered(sample) == <<team1(sample), team2(sample)>>

\* match = frozenset([team1, team2])
match(sample) == {team1(sample), team2(sample)}

\* d[key] of a defaultdict(int)
Lookup(d, key) == IF key \in DOMAIN d THEN d[key] ELSE 0

\* d[key] += 1
Increment(d, key) ==
    [k \in DOMAIN d \cup {key} |-> IF k = key THEN Lookup(d, key) + 1 ELSE d[k]]

\* pair_usage[team1], pair_usage[team2] raise KeyError for a key that is not in the dict
KeysPresent(usage, sample) ==
    team1(sample) \in DOMAIN usage /\ team2(sample) \in DOMAIN usage

\* faulty variant: a player must have waited more than min_rest rounds
rest_penalty_Strict(sample, round, last, rest) ==
    REST_PENALTY * Cardinality({i \in 1..GROUP_SIZE : ~(round - last[sample[i]] > rest)})

\* sum(0 if (r - last_played_round[p]) >= min_rest else 20 for p in sample)
rest_penalty(sample, round, last, rest) ==
    REST_PENALTY * Cardinality({i \in 1..GROUP_SIZE : ~(round - last[sample[i]] >= rest)})

\* faulty variant: the uses of the second team are not counted
score_FirstTeamOnly(sample, usage, mhist, round, last, rest) ==
    usage[team1(sample)] * TEAM_WEIGHT
        + Lookup(mhist, match(sample)) * MATCH_WEIGHT
        + rest_penalty(sample, round, last, rest)

\* score = team1_penalty + team2_penalty + match_penalty + rest_penalty
score(sample, usage, mhist, round, last, rest) ==
    usage[team1(sample)] * TEAM_WEIGHT + usage[team2(sample)] * TEAM_WEIGHT
        + Lookup(mhist, match(sample)) * MATCH_WEIGHT
        + rest_penalty(sample, round, last, rest)

\* faulty variant: a trial of the same score replaces the best group
Better_OrEqual(sc, best) == best = Inf \/ sc <= best

\* faulty variant: no score is lower than the initial best_score
Better_NoInf(sc, best) == best # Inf /\ sc < best

\* if score < best_score, with best_score = float("inf") before the first trial
Better(sc, best) == best = Inf \/ sc < best

\* faulty variant: the loop needs more than 4 unassigned players
WhileCond_MoreThanFour(avail, used, ms, courts) == Len(Unused(avail, used)) > GROUP_SIZE

\* faulty variant: the loop also stops when every court has a match
WhileCond_CourtLimit(avail, used, ms, courts) ==
    Len(Unused(avail, used)) >= GROUP_SIZE /\ Len(ms) < courts

\* faulty variant: only the players who have rested min_rest rounds count
WhileCond_RestedOnly(avail, used, ms, courts) ==
    LET Rested(p) == r - last_played_round[p] >= min_rest
    IN Len(SelectSeq(Unused(avail, used), Rested)) >= GROUP_SIZE

\* while len([p for p in available_players if p not in used_players]) >= 4
WhileCond(avail, used, ms, courts) == Len(Unused(avail, used)) >= GROUP_SIZE

\* available_players.sort(key=lambda p: r - last_played_round[p], reverse=True)
SortByWait(ps, round, last) ==
    SortDescBy(ps, [p \in Range(ps) |-> round - last[p]])

\* faulty variant: the leftovers are not appended
WithBye_Dropped(ms, leftovers) == ms

\* faulty variant: the leftovers are appended with an empty opposing team
WithBye_EmptyOpponent(ms, leftovers) ==
    IF leftovers # <<>> THEN Append(ms, << <<leftovers>>, << <<>> >> >>) ELSE ms

\* faulty variant: the leftovers are put in front of the matches
WithBye_First(ms, leftovers) ==
    IF leftovers # <<>> THEN << << <<leftovers>>, <<BYE>> >> >> \o ms ELSE ms

\* leftovers = [...]; if leftovers: matches.append(((tuple(leftovers),), ("BYE",)))
WithBye(ms, leftovers) ==
    IF leftovers # <<>> THEN Append(ms, << <<leftovers>>, <<BYE>> >>) ELSE ms

\* " & ".join(t) if len(t) > 1 else t[0]
Field(t) == IF Len(t) > 1 THEN Join(AMP, t) ELSE t[1]

\* faulty variant: the court number never wraps
NextCourt_NoWrap(court, courts) == court + 1

\* court += 1; if court > num_courts: court = 1
NextCourt(court, courts) == IF court + 1 > courts THEN 1 ELSE court + 1

\* the dict appended to all_rounds for one entry of matches
Row(m, court, round) ==
    [Round |-> round + 1, Court |-> Str(court), Team1 |-> Field(m[1]), Team2 |-> Field(m[2])]

\* court = 1; for m in matches: all_rounds.append(...); court += 1; ...
RECURSIVE Rows(_, _, _, _)
Rows(ms, court, round, courts) ==
    IF ms = <<>> THEN <<>>
    ELSE <<Row(Head(ms), court, round)>> \o Rows(Tail(ms), NextCourt(court, courts), round, courts)

(***************************************************************************)
(* Initial states: the call generate_matchups(players, num_rounds,         *)
(* num_courts, min_rest) after its lines 61-70, for the first n rows of    *)
(* the sheet.                                                              *)
(***************************************************************************)
\* the weight of one round of a pool of 1, 2, ... players: it grows with the
\* number of groupings the round can end in
PoolWeight == <<1, 1, 1, 5, 11, 13, 16, 20, 25, 30>>

\* the size of a call, which MaxLoad bounds
Load(n, rounds, courts, rest) ==
    rounds * (IF n = 0 THEN 1 ELSE PoolWeight[n]) + 2 * (courts + rest)

\* df = get_players(): the Name column cleaned
get_players(sh) == [i \in DOMAIN sh |-> [sh[i] EXCEPT !.Name = clean_name(sh[i].Name)]]

\* players = df["Name"].tolist()
Names(df) == [i \in DOMAIN df |-> df[i].Name]

\* players = [clean_name(p) for p in players]
CleanAll(ps) == [i \in DOMAIN ps |-> clean_name(ps[i])]

Call(n, leavers, rounds, courts, rest) ==
    /\ sheet = [i \in 1..n |-> [Name |-> RawNames[i], EarlyLeave |-> i \in leavers]]
    /\ players = CleanAll(Names(get_players(sheet)))
    /\ num_rounds = rounds
    /\ num_courts = courts
    /\ min_rest = rest
    /\ pair_usage = [pair \in all_pairs(players) |-> 0]
    /\ match_history = <<>>
    /\ last_played_round = [p \in Range(players) |-> -rest]
    /\ all_rounds = <<>>
    /\ r = 0
    /\ available_players = <<>>
    /\ matches = <<>>
    /\ used_players = {}
    /\ candidates = <<>>
    /\ best_group = None
    /\ best_score = Inf
    /\ trial = 0
    /\ pc = "for"
    /\ samples = <<>>
    /\ suspended = NoCall

Init ==
    \E n \in 0..MaxPlayers, rounds \in 1..MaxRounds, courts \in 1..MaxCourts,
       rest \in 0..MaxRest :
        /\ Load(n, rounds, courts, rest) <= MaxLoad
        /\ Call(n, {}, rounds, courts, rest)

\* the calls made for a roster in which some players are marked "Will leave
\* early?": the Matchmaking page passes the Name column alone (line 225)
InitRoster ==
    \E n \in 1..MaxPlayers, rounds \in 1..MaxRounds, courts \in 1..MaxCourts,
       leavers \in SUBSET (1..MaxLeavers) :
        /\ leavers # {}
        /\ leavers \subseteq 1..n
        /\ Load(n, rounds, courts, 0) + PoolWeight[n] <= MaxLoad
        /\ Call(n, leavers, rounds, courts, 0)

(***************************************************************************)
(* Steps of generate_matchups.                                             *)
(***************************************************************************)
\* for r in range(num_rounds): lines 72-77
StartRound ==
    /\ pc = "for"
    /\ r < num_rounds
    /\ available_players' = SortByWait(players, r, last_played_round)
    /\ matches' = <<>>
    /\ used_players' = {}
    /\ pc' = "while"
    /\ UNCHANGED <<inputs, histories, all_rounds, r, slot>>
    /\ UNCHANGED suspended

\* the while loop is entered once more: lines 79-82
BeginSlot ==
    /\ pc = "while"
    /\ WhileCond(available_players, used_players, matches, num_courts)
    /\ best_group' = None
    /\ best_score' = Inf
    /\ candidates' = Unused(available_players, used_players)
    /\ trial' = 0
    /\ samples' = <<>>
    /\ pc' = "trial"
    /\ UNCHANGED <<inputs, histories, all_rounds, r, available_players, matches, used_players>>
    /\ UNCHANGED suspended

ScoreOf(sample) ==
    score(sample, pair_usage, match_history, r, last_played_round, min_rest)

\* sample replaces the best group: both teams are keys of pair_usage and
\* score < best_score
Improves(sample) ==
    KeysPresent(pair_usage, sample) /\ Better(ScoreOf(sample), best_score)

\* a trial whose score is lower than best_score: lines 87-111.  Every score is a
\* sum of non-negative penalties, so no trial improves on a best_score of 0.
TrialImprove ==
    /\ pc = "trial"
    /\ trial < MaxTrials
    /\ Len(candidates) >= GROUP_SIZE
    /\ best_score # 0
    /\ \E t \in Draws(candidates) :
        /\ Improves(Pick(candidates, t))
        /\ best_score' = ScoreOf(Pick(candidates, t))
        /\ best_group' = Pick(candidates, t)
    /\ trial' = trial + 1
    /\ UNCHANGED <<inputs, histories, all_rounds, r, available_players, matches,
                   used_players, candidates, pc, samples>>
    /\ UNCHANGED suspended

\* some sample has a team that is no key of pair_usage: with four or more
\* candidates every two of them are the first team of some sample
KeyMissing(usage, cands) ==
    \E i \in DOMAIN cands, j \in DOMAIN cands :
        i # j /\ SortPair(cands[i], cands[j]) \notin DOMAIN usage

\* what a trial that does not replace the best group can do: go on to the next
\* trial, or end the call with a KeyError at line 95 or 96
OtherTrials ==
    {kind \in {"next", "KeyError"} :
        IF kind = "KeyError"
        THEN KeyMissing(pair_usage, candidates)
        ELSE \E t \in Draws(candidates) :
                 /\ KeysPresent(pair_usage, Pick(candidates, t))
                 /\ ~Better(ScoreOf(Pick(candidates, t)), best_score)}

\* a trial whose score is not lower than best_score: lines 87-109
TrialKeep ==
    /\ pc = "trial"
    /\ trial < MaxTrials
    /\ Len(candidates) >= GROUP_SIZE
    /\ \E kind \in OtherTrials :
        /\ pc' = IF kind = "KeyError" THEN "error" ELSE pc
        /\ trial' = IF kind = "KeyError" THEN trial ELSE trial + 1
    /\ UNCHANGED <<inputs, histories, all_rounds, r, available_players, matches,
                   used_players, candidates, best_group, best_score, samples>>
    /\ UNCHANGED suspended

\* one trial with its sample recorded: lines 85-111.  TrialImprove and TrialKeep
\* are its two outcomes with the sample forgotten.
Trial ==
    /\ pc = "trial"
    /\ trial < MaxTrials
    /\ Len(candidates) >= GROUP_SIZE
    /\ \E t \in Draws(candidates) :
        LET sample == Pick(candidates, t)
        IN IF ~KeysPresent(pair_usage, sample)
           THEN pc' = "error" /\ UNCHANGED <<best_group, best_score, trial, samples>>
           ELSE /\ samples' = Append(samples, sample)
                /\ best_score' = IF Better(ScoreOf(sample), best_score)
                                 THEN ScoreOf(sample) ELSE best_score
                /\ best_group' = IF Better(ScoreOf(sample), best_score)
                                 THEN sample ELSE best_group
                /\ trial' = trial + 1
                /\ pc' = pc
    /\ UNCHANGED <<inputs, histories, all_rounds, r, available_players, matches,
                   used_players, candidates, suspended>>

\* faulty variant: the second team of the group is not counted
CommitUsage_FirstTeamOnly(usage, group) == Increment(usage, team1(group))

\* pair_usage[team1] += 1; pair_usage[team2] += 1
CommitUsage(usage, group) == Increment(Increment(usage, team1(group)), team2(group))

\* faulty variant: every player of the call is marked
MarkPlayed_Everyone(last, group, round) == [p \in DOMAIN last |-> round]

\* for p in best_group: last_played_round[p] = r
MarkPlayed(last, group, round) ==
    [p \in DOMAIN last |-> IF p \in Range(group) THEN round ELSE last[p]]

\* the trial loop is over; if best_group: lines 113-127
Commit ==
    /\ pc = "trial"
    /\ trial = MaxTrials \/ Len(candidates) < GROUP_SIZE
    /\ IF best_group # None
       THEN /\ matches' = Append(matches, <<team1(best_group), team2(best_group)>>)
            /\ pair_usage' = CommitUsage(pair_usage, best_group)
            /\ match_history' = Increment(match_history, match(best_group))
            /\ used_players' = used_players \cup Range(best_group)
            /\ last_played_round' = MarkPlayed(last_played_round, best_group, r)
       ELSE UNCHANGED <<matches, histories, used_players>>
    /\ candidates' = <<>>
    /\ best_group' = None
    /\ best_score' = Inf
    /\ trial' = 0
    /\ samples' = <<>>
    /\ pc' = "while"
    /\ UNCHANGED <<inputs, all_rounds, r, available_players>>
    /\ UNCHANGED suspended

\* the while loop is left: lines 129-146
FinishRound ==
    /\ pc = "while"
    /\ ~WhileCond(available_players, used_players, matches, num_courts)
    /\ all_rounds' = all_rounds \o
           Rows(WithBye(matches, Unused(available_players, used_players)), 1, r, num_courts)
    /\ r' = r + 1
    /\ available_players' = <<>>
    /\ matches' = <<>>
    /\ used_players' = {}
    /\ pc' = "for"
    /\ UNCHANGED <<inputs, histories, slot>>
    /\ UNCHANGED suspended

\* return pd.DataFrame(all_rounds): line 148
Return ==
    /\ pc = "for"
    /\ r >= num_rounds
    /\ pc' = "done"
    /\ UNCHANGED <<inputs, histories, all_rounds, r, available_players, matches,
                   used_players, slot>>
    /\ UNCHANGED suspended

Next == StartRound \/ BeginSlot \/ TrialImprove \/ TrialKeep \/ Commit \/ FinishRound \/ Return

Spec == Init /\ [][Next]_vars

SpecRoster == InitRoster /\ [][Next]_vars

(***************************************************************************)
(* Two calls of generate_matchups in one process, each in a thread of its   *)
(* own.  The names of lines 54-148 are locals of the call: every call has   *)
(* its own, and a thread switch changes none of them.                       *)
(***************************************************************************)
\* the locals of the running call
Frame ==
    [sheet |-> sheet, players |-> players, num_rounds |-> num_rounds,
     num_courts |-> num_courts, min_rest |-> min_rest, pair_usage |-> pair_usage,
     match_history |-> match_history, last_played_round |-> last_played_round,
     all_rounds |-> all_rounds, r |-> r, available_players |-> available_players,
     matches |-> matches, used_players |-> used_players, candidates |-> candidates,
     best_group |-> best_group, best_score |-> best_score, trial |-> trial, pc |-> pc,
     samples |-> samples]

\* the thread of the call with locals f runs
Resume(f) ==
    /\ sheet' = f.sheet
    /\ players' = f.players
    /\ num_rounds' = f.num_rounds
    /\ num_courts' = f.num_courts
    /\ min_rest' = f.min_rest
    /\ pair_usage' = f.pair_usage
    /\ match_history' = f.match_history
    /\ last_played_round' = f.last_played_round
    /\ all_rounds' = f.all_rounds
    /\ r' = f.r
    /\ available_players' = f.available_players
    /\ matches' = f.matches
    /\ used_players' = f.used_players
    /\ candidates' = f.candidates
    /\ best_group' = f.best_group
    /\ best_score' = f.best_score
    /\ trial' = f.trial
    /\ pc' = f.pc
    /\ samples' = f.samples

\* faulty variant: the histories are objects of the module, which a new call
\* finds as the last call left them
NewHistories_Shared(ps, rest) ==
    [pair_usage |-> pair_usage, match_history |-> match_history,
     last_played_round |-> last_played_round]

\* match_history = defaultdict(int); last_played_round = {p: -min_rest ...};
\* pair_usage = {pair: 0 for pair in all_pairs}: new objects in every call
NewHistories(ps, rest) ==
    [pair_usage |-> [pair \in all_pairs(ps) |-> 0],
     match_history |-> <<>>,
     last_played_round |-> [p \in Range(ps) |-> -rest]]

\* the locals of a call of generate_matchups after its lines 61-70
Entered(sh, rounds, courts, rest) ==
    LET ps == CleanAll(Names(get_players(sh)))
        h == NewHistories(ps, rest)
    IN [sheet |-> sh, players |-> ps, num_rounds |-> rounds, num_courts |-> courts,
        min_rest |-> rest, pair_usage |-> h.pair_usage,
        match_history |-> h.match_history,
        last_played_round |-> h.last_played_round, all_rounds |-> <<>>, r |-> 0,
        available_players |-> <<>>, matches |-> <<>>, used_players |-> {},
        candidates |-> <<>>, best_group |-> None, best_score |-> Inf, trial |-> 0,
        pc |-> "for", samples |-> <<>>]

\* a second session asks for a schedule of the same sheet while the first call
\* is anywhere in its run: its thread enters generate_matchups and runs
CallOther ==
    /\ suspended = NoCall
    /\ pc # "error"
    /\ \E rounds \in 1..MaxRounds, courts \in 1..MaxCourts, rest \in 0..MaxRest :
        /\ Load(Len(sheet), rounds, courts, rest) <= MaxOtherLoad
        /\ Resume(Entered(sheet, rounds, courts, rest))
    /\ suspended' = Frame

\* the interpreter switches between the threads of the two calls
Switch ==
    /\ suspended # NoCall
    /\ Resume(suspended)
    /\ suspended' = Frame

\* the calls of two or more rounds, in which the rest of a player counts, with
\* every min_rest
InitRest ==
    \E n \in 0..MaxPlayers, rounds \in 2..MaxRounds, courts \in 1..MaxCourts,
       rest \in 0..MaxRest :
        /\ Load(n, rounds, courts, 0) + 2 * rounds <= MaxRestLoad
        /\ Call(n, {}, rounds, courts, rest)

SpecRest == InitRest /\ [][Next]_vars

\* the calls whose trials are recorded: small pools, the more trials the smaller
InitTrials ==
    \E n \in 1..MaxPlayers, rounds \in 1..MaxRounds, courts \in 1..MaxCourts,
       rest \in 0..MaxRest :
        /\ Load(n, rounds, courts, rest) + PoolWeight[n] * MaxTrials <= MaxLoad
        /\ Call(n, {}, rounds, courts, rest)

NextTrials == StartRound \/ BeginSlot \/ Trial \/ Commit \/ FinishRound \/ Return

SpecTrials == InitTrials /\ [][NextTrials]_vars

InitTwo ==
    \E n \in 0..MaxPlayers, rounds \in 1..MaxRounds, courts \in 1..MaxCourts,
       rest \in 0..MaxRest :
        /\ Load(n, rounds, courts, rest) <= MaxTwoLoad
        /\ Call(n, {}, rounds, courts, rest)

NextTwo == Next \/ CallOther \/ Switch

SpecTwo == InitTwo /\ [][NextTwo]_vars

\* the calls of at most MaxFairLoad in size
InitFair ==
    \E n \in 0..MaxPlayers, rounds \in 1..MaxRounds, courts \in 1..MaxCourts,
       rest \in 0..MaxRest :
        /\ Load(n, rounds, courts, rest) <= MaxFairLoad
        /\ Call(n, {}, rounds, courts, rest)

\* the call runs in one thread that always takes its next step: the loops of
\* lines 72-146 have no blocking or waiting, so a step that can be taken is taken
SpecFair == InitFair /\ [][Next]_vars /\ WF_vars(Next)

(***************************************************************************)
(* Reading the result.                                                     *)
(***************************************************************************)
PlayerSet == Range(players)
NumPlayers == Len(players)
Distinct(ps) == \A i \in DOMAIN ps, j \in DOMAIN ps : ps[i] = ps[j] => i = j

\* the rows of round k, in the order of the result
RoundRows(k) == SelectSeq(all_rounds, LAMBDA row : row.Round = k)

\* a row whose Team 2 is "BYE" is a Bye entry, every other row is a Match
IsBye(row) == row.Team2 = BYE
MatchRows(k) == SelectSeq(RoundRows(k), LAMBDA row : ~IsBye(row))
ByeRows(k) == SelectSeq(RoundRows(k), IsBye)

\* the Teams (pairs of supplied players) a display string "X & Y" stands for
TeamsShown(str) == {t \in PlayerSet \X PlayerSet : Join(AMP, t) = str}
TeamShown(str) == CHOOSE t \in PlayerSet \X PlayerSet : Join(AMP, t) = str

\* a Match row shows two Teams of two players, four different players in all
IsMatchOfFour(row) ==
    /\ TeamsShown(row.Team1) # {}
    /\ TeamsShown(row.Team2) # {}
    /\ Cardinality(Range(TeamShown(row.Team1) \o TeamShown(row.Team2))) = GROUP_SIZE

\* the players a row names, one entry per appearance
PlayersOfRow(row) ==
    IF IsBye(row) THEN row.Team1 ELSE TeamShown(row.Team1) \o TeamShown(row.Team2)

RECURSIVE PlayersOfRows(_)
PlayersOfRows(rows) ==
    IF rows = <<>> THEN <<>> ELSE PlayersOfRow(Head(rows)) \o PlayersOfRows(Tail(rows))

\* every Match row of round k is well formed
MatchesWellFormed(k) ==
    \A i \in DOMAIN MatchRows(k) : IsMatchOfFour(MatchRows(k)[i])

\* the rounds whose rows are in the result
Completed == 1..r

(***************************************************************************)
(* The claims.                                                             *)
(***************************************************************************)
\* C1: in every round of the result, the players of the round's Match rows
\* together with the players of its Bye entry are exactly the supplied players:
\* each appears once, in one Team of one Match or in the Bye entry, none twice,
\* none omitted.
C1_RoundIsPartition ==
    (pc = "for" /\ Distinct(players)) =>
        \A k \in Completed :
            /\ MatchesWellFormed(k)
            /\ Len(PlayersOfRows(RoundRows(k))) = NumPlayers
            /\ Range(PlayersOfRows(RoundRows(k))) = PlayerSet

\* a finished call of 5 players over 2 rounds: each round a Match and a Bye
C1_Witness ==
    /\ pc = "done"
    /\ NumPlayers = 5
    /\ r = 2
    /\ \A k \in Completed : Len(MatchRows(k)) = 1 /\ Len(ByeRows(k)) = 1

\* C2: when floor(n/4) <= num_courts, every round has exactly floor(n/4)
\* Matches, each of 2 Teams of 2 players, and its Bye entry holds exactly
\* n mod 4 players, with no Bye row at all when n mod 4 = 0.
C2_MatchAndByeCounts ==
    (pc = "for" /\ Distinct(players) /\ NumPlayers \div GROUP_SIZE <= num_courts) =>
        \A k \in Completed :
            /\ Len(MatchRows(k)) = NumPlayers \div GROUP_SIZE
            /\ MatchesWellFormed(k)
            /\ Len(PlayersOfRows(ByeRows(k))) = NumPlayers % GROUP_SIZE
            /\ NumPlayers % GROUP_SIZE = 0 => ByeRows(k) = <<>>

\* a finished call of 8 players on 2 courts: 2 Matches and no Bye row
C2_Witness ==
    /\ pc = "done"
    /\ NumPlayers = 8
    /\ num_courts = 2
    /\ Len(MatchRows(1)) = 2
    /\ ByeRows(1) = <<>>

\* C3: with 1, 2 or 3 players every one of the num_rounds rounds has zero
\* Matches and exactly one Bye entry that holds all supplied players; with an
\* empty player list the result has no rows at all.
C3_SparseInput ==
    /\ NumPlayers \in 1..3 =>
        /\ \A k \in Completed :
            /\ MatchRows(k) = <<>>
            /\ Len(ByeRows(k)) = 1
            /\ Len(ByeRows(k)[1].Team1) = NumPlayers
            /\ Range(ByeRows(k)[1].Team1) = PlayerSet
        /\ Len(all_rounds) = r
        /\ pc = "done" => r = num_rounds
    /\ NumPlayers = 0 => all_rounds = <<>>

\* a finished call of 3 players over 2 rounds: two rows, both Bye entries
C3_Witness ==
    /\ pc = "done"
    /\ NumPlayers = 3
    /\ num_rounds = 2
    /\ Len(all_rounds) = 2
    /\ IsBye(all_rounds[1]) /\ IsBye(all_rounds[2])

\* the unassigned players of the round in progress
Unassigned == Unused(available_players, used_players)

\* C4 as stated: the number of Matches in any round never exceeds num_courts.
C4_AtMostCourtsMatches ==
    pc = "for" => \A k \in Completed : Len(MatchRows(k)) <= num_courts

\* C4, amended: within one round, drawing groups of 4 stops only when fewer than
\* 4 unassigned players remain; the court count does not stop it.  While 4 or
\* more are unassigned another group is drawn, also when the round already has
\* num_courts Matches, and the fewer than 4 players left at the end sit out.
C4_DrawsUntilFewerThanFour ==
    [][/\ (pc = "while" /\ Len(Unassigned) >= GROUP_SIZE) => pc' = "trial"
       /\ (pc = "while" /\ pc' = "for") =>
            /\ Len(Unassigned) < GROUP_SIZE
            /\ Len(matches) = NumPlayers \div GROUP_SIZE
            /\ Unassigned # <<>> =>
                   /\ IsBye(all_rounds'[Len(all_rounds')])
                   /\ all_rounds'[Len(all_rounds')].Team1 = Unassigned]_vars

\* a group is being drawn in a round that already has num_courts Matches
C4_Witness ==
    /\ pc = "trial"
    /\ Len(matches) >= num_courts
    /\ best_group # None

\* the court of the j-th row of a round: ((j - 1) mod num_courts) + 1, as a string
CourtOfSlot(j) == Str(((j - 1) % num_courts) + 1)

\* C5: the k-th Match committed in a round is bound to court
\* ((k - 1) mod num_courts) + 1: every court number lies in 1..num_courts, the
\* first Match of every round is on court 1, and once all courts have a match
\* the next group reuses court 1 in the same round.
C5_CourtsRoundRobin ==
    pc = "for" =>
        \A k \in Completed :
            \A j \in DOMAIN MatchRows(k) :
                /\ MatchRows(k)[j] = RoundRows(k)[j]
                /\ MatchRows(k)[j].Court = CourtOfSlot(j)
                /\ \E c \in 1..num_courts : MatchRows(k)[j].Court = Str(c)
                /\ j = 1 => MatchRows(k)[j].Court = <<"1">>
                /\ j = num_courts + 1 => MatchRows(k)[j].Court = <<"1">>

\* a finished round of 8 players on 1 court: the second Match reuses court 1
C5_Witness ==
    /\ pc = "done"
    /\ num_courts = 1
    /\ Len(MatchRows(1)) = 2
    /\ MatchRows(1)[2].Court = <<"1">>

\* C6 as stated: the players left over in a round are emitted as one entry
\* whose court label is "BYE" and whose opposing-team field is empty.
C6_ByeLabelInCourt ==
    pc = "for" =>
        \A k \in Completed :
            NumPlayers % GROUP_SIZE # 0 =>
                \E i \in DOMAIN RoundRows(k) :
                    /\ RoundRows(k)[i].Court = BYE
                    /\ RoundRows(k)[i].Team2 = <<>>

\* C6, amended: when fewer than 4 unassigned players remain in a round and at
\* least one remains, they are emitted as a single Bye entry, the last row of the
\* round: its Team 1 field holds the remaining players, its Team 2 field is
\* "BYE", and its court field is the next court number in round-robin order, not
\* the label "BYE".  A round that leaves nobody over has no Bye entry.  (The step
\* that ends round r + 1 sets r to r + 1, so RoundRows(r)' are that round's rows.)
C6_ByeEntry ==
    [][(pc = "while" /\ pc' = "for") =>
          LET rows == RoundRows(r)'
              last == rows[Len(rows)]
          IN IF Unassigned = <<>>
             THEN ByeRows(r)' = <<>>
             ELSE /\ Len(ByeRows(r)') = 1
                  /\ Len(rows) = Len(matches) + 1
                  /\ last.Team1 = Unassigned
                  /\ last.Team2 = BYE
                  /\ last.Court = CourtOfSlot(Len(rows))
                  /\ last.Court # BYE]_vars

\* a finished round of 5 players on 2 courts: the Bye entry is on court "2"
C6_Witness ==
    /\ pc = "done"
    /\ NumPlayers = 5
    /\ num_courts = 2
    /\ Len(RoundRows(1)) = 2
    /\ IsBye(RoundRows(1)[2])
    /\ RoundRows(1)[2].Court = <<"2">>
    /\ Len(RoundRows(1)[2].Team1) = 1

\* C7 as stated: no pair of players is committed as a Team for a second time
\* while some pair of players has not yet been committed as a Team in this call.
C7_StrictTeammateAvoidance ==
    [][(pc = "trial" /\ pc' = "while" /\ best_group # None) =>
          \A team \in {team1(best_group), team2(best_group)} :
              pair_usage[team] >= 1 => \A pair \in DOMAIN pair_usage : pair_usage[pair] >= 1]_vars

\* C8: generate_matchups never ends in an error: it returns a result with all
\* num_rounds rounds, and with exactly 4 players every round holds exactly one
\* Match and no Bye entry, also after the 3 possible team splits are used up.
C8_NoError ==
    /\ pc # "error"
    /\ pc = "done" => r = num_rounds
    /\ (pc = "for" /\ NumPlayers = GROUP_SIZE) =>
           \A k \in Completed :
               /\ Len(RoundRows(k)) = 1
               /\ ~IsBye(RoundRows(k)[1])
               /\ IsMatchOfFour(RoundRows(k)[1])

\* a finished call of 4 players over 4 rounds, in which a Team played twice
C8_Witness ==
    /\ pc = "done"
    /\ NumPlayers = GROUP_SIZE
    /\ num_rounds = 4
    /\ Len(all_rounds) = 4
    /\ \E pair \in DOMAIN pair_usage : pair_usage[pair] >= 2

\* the players of the sheet rows marked EarlyLeave
EarlyLeavers == {players[i] : i \in {j \in DOMAIN sheet : sheet[j].EarlyLeave}}

\* C9 as stated, for the departure the sheet records: a player marked as leaving
\* early has a departure round k before the last round and appears neither in a
\* Match nor in the Bye entry of any round numbered greater than k.
C9_EarlyLeaverSitsOut ==
    (pc = "done" /\ num_rounds >= 2) =>
        \A p \in EarlyLeavers :
            \E k \in 1..(num_rounds - 1) :
                \A j \in (k + 1)..num_rounds :
                    p \notin Range(PlayersOfRows(RoundRows(j)))

\* the three other orders in which the partners of a group can be sampled
PartnerSwaps(g) == {<<g[2], g[1], g[3], g[4]>>, <<g[1], g[2], g[4], g[3]>>, <<g[2], g[1], g[4], g[3]>>}

\* C10: Team canonicalization is order-independent and idempotent: the Team
\* built from (A, B) equals the one built from (B, A), canonicalizing a
\* canonical Team returns it unchanged, and the teammate-usage counters a
\* committed group increments do not depend on the order in which the two
\* partners of a Team were sampled.
C10_TeamCanonical ==
    /\ pc = "for" =>
           \A a \in PlayerSet, b \in PlayerSet :
               a # b =>
                   /\ SortPair(a, b) = SortPair(b, a)
                   /\ SortPair(SortPair(a, b)[1], SortPair(a, b)[2]) = SortPair(a, b)
    /\ (pc = "trial" /\ best_group # None) =>
           \A g \in PartnerSwaps(best_group) :
               /\ team1(g) = team1(best_group)
               /\ team2(g) = team2(best_group)
               /\ CommitUsage(pair_usage, g) = CommitUsage(pair_usage, best_group)

\* the best group was sampled with both Teams against the sorted order, and
\* its first Team has played before
C10_Witness ==
    /\ pc = "trial"
    /\ trial = MaxTrials
    /\ best_group # None
    /\ StrLess(best_group[2], best_group[1])
    /\ StrLess(best_group[4], best_group[3])
    /\ pair_usage[team1(best_group)] >= 1

\* the same grouping with its two Teams sampled in the other order
TeamSwap(g) == <<g[3], g[4], g[1], g[2]>>

\* C11: Match canonicalization is team-order-independent: for all Teams T1, T2
\* the Match key built from (T1, T2) equals the one built from (T2, T1), so a
\* grouping sampled as (p1, p2, p3, p4) and the same grouping sampled as
\* (p3, p4, p1, p2) read and increment the same match_history entry.
C11_MatchCanonical ==
    /\ (pc = "for" /\ r = 0) =>
           \A T1 \in DOMAIN pair_usage, T2 \in DOMAIN pair_usage :
               match(T1 \o T2) = match(T2 \o T1)
    /\ (pc = "trial" /\ best_group # None) =>
           /\ match(TeamSwap(best_group)) = match(best_group)
           /\ Lookup(match_history, match(TeamSwap(best_group)))
                  = Lookup(match_history, match(best_group))
           /\ Increment(match_history, match(TeamSwap(best_group)))
                  = Increment(match_history, match(best_group))

\* the best group is a Match committed in round 1 with its Teams in the other
\* order: round 1 shows the group's second Team as Team 1
C11_Witness ==
    /\ pc = "trial"
    /\ trial = MaxTrials
    /\ best_group # None
    /\ r >= 1
    /\ ~IsBye(all_rounds[1])
    /\ all_rounds[1].Team1 = Field(team2(best_group))
    /\ all_rounds[1].Team2 = Field(team1(best_group))
    /\ Lookup(match_history, match(best_group)) >= 1

\* C12: generate_matchups always terminates: every iteration of the per-round
\* court-slot loop entered with at least 4 unassigned players commits exactly
\* one group (the best group is never left unset after the trial loop), so the
\* number of unassigned players decreases by 4 per iteration, every round that
\* is begun completes, and the call returns.
C12_Terminates ==
    /\ [][(pc = "trial" /\ pc' = "while") =>
              /\ Len(Unassigned) >= GROUP_SIZE
              /\ best_group # None
              /\ Len(matches') = Len(matches) + 1
              /\ Len(Unassigned') = Len(Unassigned) - GROUP_SIZE]_vars
    /\ [](pc = "while" => <>(pc = "for"))
    /\ <>(pc = "done" /\ r = num_rounds)

\* a call of 4 players over 2 rounds has returned: each round took one iteration
\* of the court-slot loop, which committed a group
C12_Witness ==
    /\ pc = "done"
    /\ NumPlayers = GROUP_SIZE
    /\ num_rounds = 2
    /\ r = num_rounds
    /\ Len(MatchRows(1)) = 1
    /\ Len(MatchRows(2)) = 1

\* the calls in progress, by their locals
Calls == {Frame} \cup (IF suspended = NoCall THEN {} ELSE {suspended})

\* the sum of the counts of a history
RECURSIVE Total(_)
Total(d) ==
    IF DOMAIN d = {} THEN 0
    ELSE LET k == CHOOSE key \in DOMAIN d : TRUE
         IN d[k] + Total([key \in DOMAIN d \ {k} |-> d[key]])

\* the number of groups the call with locals f has committed so far
CommittedBy(f) ==
    Cardinality({i \in DOMAIN f.all_rounds : ~IsBye(f.all_rounds[i])}) + Len(f.matches)

\* the histories of the call with locals f are as lines 62-68 make them
FreshHistories(f) ==
    /\ \A pair \in DOMAIN f.pair_usage : f.pair_usage[pair] = 0
    /\ \A m \in DOMAIN f.match_history : f.match_history[m] = 0
    /\ DOMAIN f.last_played_round = Range(f.players)
    /\ \A p \in DOMAIN f.last_played_round : f.last_played_round[p] = -f.min_rest

\* the histories of the call with locals f count the commits of that call alone
OwnCommitsOnly(f) ==
    /\ Total(f.pair_usage) = 2 * CommittedBy(f)
    /\ Total(f.match_history) = CommittedBy(f)
    /\ \A p \in DOMAIN f.last_played_round :
           f.last_played_round[p] = -f.min_rest \/ f.last_played_round[p] \in 0..f.r

\* C13: histories are scoped to one call: at the start of every call all
\* teammate and match counts are 0 and every player's last-played round is
\* -min_rest, also when another call has committed groups before; and when two
\* calls are interleaved each call's histories count its own commits only: a
\* step of the running call leaves the locals of the other call as they are,
\* and a thread switch changes the locals of neither.
C13_HistoriesScoped ==
    /\ [](\A f \in Calls : (f.pc = "for" /\ f.r = 0) => FreshHistories(f))
    /\ [](\A f \in Calls : OwnCommitsOnly(f))
    /\ [][/\ (suspended = NoCall /\ suspended' # NoCall) =>
                  (suspended' = Frame /\ FreshHistories(Frame'))
          /\ (suspended # NoCall /\ suspended' # suspended) =>
                  (suspended' = Frame /\ Frame' = suspended)
          /\ (Frame' # Frame /\ Frame' # suspended /\ suspended # NoCall) =>
                  suspended' = suspended]_vars

\* two calls are in the middle of their runs: the running one has committed a
\* group in round 1 and is choosing one for round 2, the other one has
\* committed a group of its own and waits
C13_Witness ==
    /\ suspended # NoCall
    /\ pc = "trial"
    /\ best_group # None
    /\ r = 1
    /\ Total(pair_usage) = 2
    /\ suspended.pc = "while"
    /\ Len(suspended.matches) = 1
    /\ Total(suspended.pair_usage) = 2

\* the first of the recorded samples that has the lowest score
FirstLowest ==
    CHOOSE i \in DOMAIN samples :
        /\ \A j \in DOMAIN samples : ScoreOf(samples[j]) >= ScoreOf(samples[i])
        /\ \A j \in 1..(i - 1) : ScoreOf(samples[j]) > ScoreOf(samples[i])

\* C14: for each court slot, the group that is committed is the lowest-scoring
\* trial among the trials sampled for that slot, and when several trials share
\* the lowest score the one sampled first is committed: after every trial the
\* best group is the first sample of the lowest score, and it is the group the
\* commit appends to the round.
C14_LowestFirstFound ==
    /\ []((pc = "trial" /\ samples # <<>>) =>
             /\ best_group = samples[FirstLowest]
             /\ best_score = ScoreOf(samples[FirstLowest]))
    /\ [][(pc = "trial" /\ pc' = "while") =>
              /\ samples # <<>>
              /\ matches' = Append(matches, <<team1(samples[FirstLowest]),
                                              team2(samples[FirstLowest])>>)
              /\ used_players' = used_players \cup Range(samples[FirstLowest])]_vars

\* in round 2 the second trial scored lower than the first and replaced it
C14_Witness ==
    /\ pc = "trial"
    /\ r = 1
    /\ Len(samples) = 2
    /\ ScoreOf(samples[2]) < ScoreOf(samples[1])
    /\ best_group = samples[2]

\* the Matches committed so far in this call, as pairs of sets of two players:
\* the Match rows of the finished rounds and the Matches of the round in progress
TeamsOfRow(row) == <<Range(TeamShown(row.Team1)), Range(TeamShown(row.Team2))>>
CommittedMatches ==
    [i \in {j \in DOMAIN all_rounds : ~IsBye(all_rounds[j])} |-> TeamsOfRow(all_rounds[i])]
MatchesInProgress == [j \in DOMAIN matches |-> <<Range(matches[j][1]), Range(matches[j][2])>>]

\* how many committed Matches a function of Matches holds that satisfy Test
HowMany(ms, Test(_)) == Cardinality({i \in DOMAIN ms : Test(ms[i])})

\* the number of committed Matches in which a and b were a Team
PriorUses(a, b) ==
    LET Has(m) == {a, b} \in {m[1], m[2]}
    IN HowMany(CommittedMatches, Has) + HowMany(MatchesInProgress, Has)

\* the number of committed Matches of Team {a, b} against Team {c, d}
PriorOccurrences(a, b, c, d) ==
    LET Is(m) == {m[1], m[2]} = {{a, b}, {c, d}}
    IN HowMany(CommittedMatches, Is) + HowMany(MatchesInProgress, Is)

\* the index of the latest finished round in which p played a Match,
\* -min_rest if there is none
LatestMatchRound(p) ==
    LET played == {all_rounds[i].Round - 1 : i \in
                      {j \in DOMAIN all_rounds :
                          /\ ~IsBye(all_rounds[j])
                          /\ p \in TeamsOfRow(all_rounds[j])[1] \cup TeamsOfRow(all_rounds[j])[2]}}
    IN IF played = {} THEN -min_rest
       ELSE CHOOSE k \in played : \A other \in played : other <= k

\* the score the claim gives the trial g in the current round
ClaimedScore(g) ==
    10 * (PriorUses(g[1], g[2]) + PriorUses(g[3], g[4]))
        + 5 * PriorOccurrences(g[1], g[2], g[3], g[4])
        + 20 * Cardinality({i \in 1..4 : r - LatestMatchRound(g[i]) < min_rest})

\* C15: the score of a trial (p1, p2, p3, p4) in round index r equals
\* 10 x (prior uses of Team {p1, p2} + prior uses of Team {p3, p4})
\* + 5 x (prior occurrences of the Match of these two Teams)
\* + 20 x (the number of the four players p with r - last_played_round[p] < min_rest),
\* all counts being those of the Matches this call committed before; a teammate
\* repeat weighs more than an opponent repeat.
C15_ScoreFormula ==
    /\ TEAM_WEIGHT > MATCH_WEIGHT
    /\ (pc = "trial" /\ best_group # None) =>
           /\ best_score = ClaimedScore(best_group)
           /\ ScoreOf(best_group) = ClaimedScore(best_group)

\* round 2 of 5 players with min_rest 2: the best group of the slot has a Team
\* of round 1 and the player who sat out round 1, so it scores 10 + 3 x 20
C15_Witness ==
    /\ pc = "trial"
    /\ best_group # None
    /\ min_rest = 2
    /\ r = 1
    /\ NumPlayers = 5
    /\ best_score = 70
    /\ PriorUses(best_group[1], best_group[2]) + PriorUses(best_group[3], best_group[4]) = 1

\* the number of Matches committed so far in this call
NumCommitted ==
    Cardinality(DOMAIN CommittedMatches) + Cardinality(DOMAIN MatchesInProgress)

\* the Matches (sets of two Teams) that have a count in match_history, and the
\* Matches committed so far
CountedMatches == DOMAIN match_history
PlayedMatches ==
    {{SortPair(a, b), SortPair(c, d)} : <<a, b, c, d>> \in
        {<<t[1][1], t[1][2], t[2][1], t[2][2]>> : t \in
            {<<TeamShown(all_rounds[i].Team1), TeamShown(all_rounds[i].Team2)>> :
                i \in {j \in DOMAIN all_rounds : ~IsBye(all_rounds[j])}}
            \cup {<<matches[j][1], matches[j][2]>> : j \in DOMAIN matches}}}

\* the two Teams of a Match, in some order
TeamsOf(m) ==
    CHOOSE t \in (m \X m) : m = {t[1], t[2]}

\* C16: after any number of commits the histories agree with the schedule
\* produced so far: for every Team the usage count is the number of committed
\* Matches in which the Team played, for every Match the match count is the
\* number of times the Match was committed, the sum of all Team usage counts is
\* twice the number of committed Matches, and the step that adds the Bye entry
\* of a round changes no count.
C16_HistoriesAgree ==
    /\ [](pc \in {"while", "done"} =>
             /\ \A pair \in DOMAIN pair_usage :
                    pair_usage[pair] = PriorUses(pair[1], pair[2])
             /\ PlayedMatches = CountedMatches
             /\ \A m \in CountedMatches :
                    match_history[m] =
                        PriorOccurrences(TeamsOf(m)[1][1], TeamsOf(m)[1][2],
                                         TeamsOf(m)[2][1], TeamsOf(m)[2][2])
             /\ Total(pair_usage) = 2 * NumCommitted
             /\ Total(match_history) = NumCommitted)
    /\ [][(pc = "while" /\ pc' = "for") =>
              /\ pair_usage' = pair_usage
              /\ match_history' = match_history]_vars

\* a finished call of 5 players over 2 rounds, each with a Bye entry, in which
\* the same Match was committed twice
C16_Witness ==
    /\ pc = "done"
    /\ NumPlayers = 5
    /\ Len(ByeRows(1)) = 1
    /\ Len(ByeRows(2)) = 1
    /\ \E m \in DOMAIN match_history : match_history[m] = 2
    /\ \E pair \in DOMAIN pair_usage : pair_usage[pair] = 2
    /\ Total(pair_usage) = 4

\* C17: committing a group in round index r sets last_played_round to r for
\* exactly the four players of that group and leaves it unchanged for every
\* other player; so at the end of each round last_played_round[p] is the index
\* of the latest round in which p played a Match, or -min_rest if p has only
\* had Byes, and the step that adds the Bye entry does not change it.
C17_LastPlayedFrame ==
    /\ [](pc = "for" =>
             \A p \in PlayerSet : last_played_round[p] = LatestMatchRound(p))
    /\ [][/\ (pc = "trial" /\ pc' = "while") =>
                 /\ Cardinality(Range(best_group)) = 4
                 /\ \A p \in PlayerSet :
                        last_played_round'[p] =
                            IF p \in Range(best_group) THEN r ELSE last_played_round[p]
          /\ (pc = "while" /\ pc' = "for") =>
                 last_played_round' = last_played_round]_vars

\* after 2 rounds of 5 players with min_rest 1: one player has only had Byes
\* and the four others played in round 2
C17_Witness ==
    /\ pc = "for"
    /\ r = 2
    /\ NumPlayers = 5
    /\ min_rest = 1
    /\ Len(ByeRows(1)) = 1
    /\ Len(ByeRows(2)) = 1
    /\ ByeRows(1)[1].Team1 = ByeRows(2)[1].Team1
    /\ \E p \in PlayerSet : last_played_round[p] = -1
    /\ Cardinality({p \in PlayerSet : last_played_round[p] = 1}) = 4

\* the players who played a Match fewer than min_rest rounds before the
\* current round
PlayedRecently == {p \in PlayerSet : r - last_played_round[p] < min_rest}

\* C18: the rest constraint is a soft preference and never a hard exclusion:
\* for every min_rest the candidates of a court slot are all the unassigned
\* players, those who played fewer than min_rest rounds ago included, so with a
\* player count that is a multiple of 4 every player plays in every round; and
\* a round ends, and its Bye entry is made, only when fewer than 4 unassigned
\* players remain.
C18_RestIsSoft ==
    /\ [](pc = "trial" =>
             /\ Range(candidates) = PlayerSet \ used_players
             /\ PlayedRecently \ used_players \subseteq Range(candidates))
    /\ []((pc = "for" /\ NumPlayers % 4 = 0) =>
             \A k \in Completed :
                 /\ ByeRows(k) = <<>>
                 /\ Range(PlayersOfRows(MatchRows(k))) = PlayerSet)
    /\ [](pc = "for" =>
             \A k \in Completed : Len(PlayersOfRows(ByeRows(k))) < 4)
    /\ [][(pc = "while" /\ pc' = "for") => Len(Unassigned) < 4]_vars

\* round 2 of 5 players with min_rest 2: the best group has three players who
\* played in round 1, and no more trials are left before it is committed
C18_Witness ==
    /\ pc = "trial"
    /\ trial = MaxTrials
    /\ best_group # None
    /\ NumPlayers = 5
    /\ min_rest = 2
    /\ r = 1
    /\ Cardinality(Range(best_group) \cap PlayedRecently) = 3
    /\ Cardinality(PlayedRecently) = 4

\* last_played_round as the call with min_rest = 0 has it after the same
\* commits: 0 for a player who has not played yet
LastPlayedWithoutRest ==
    [p \in DOMAIN last_played_round |->
        IF last_played_round[p] < 0 THEN 0 ELSE last_played_round[p]]

C20_RowsOrdered ==
    /\ [](pc \in {"for", "done"} =>
             /\ \A i \in DOMAIN all_rounds, j \in DOMAIN all_rounds :
                    i < j => all_rounds[i].Round <= all_rounds[j].Round
             /\ {all_rounds[i].Round : i \in DOMAIN all_rounds}
                    = IF NumPlayers = 0 THEN {} ELSE 1..r
             /\ pc = "done" => r = num_rounds
             /\ \A k \in Completed :
                    /\ RoundRows(k) = MatchRows(k) \o ByeRows(k)
                    /\ Len(ByeRows(k)) <= 1)
    /\ [][/\ (pc = "trial" /\ pc' = "while") =>
                 SubSeq(matches', 1, Len(matches)) = matches
          /\ (pc = "while" /\ pc' = "for") =>
                 /\ SubSeq(all_rounds', 1, Len(all_rounds)) = all_rounds
                 /\ Len(MatchRows(r)') = Len(matches)
                 /\ \A j \in DOMAIN matches :
                        /\ MatchRows(r)'[j] = RoundRows(r)'[j]
                        /\ MatchRows(r)'[j].Team1 = Field(matches[j][1])
                        /\ MatchRows(r)'[j].Team2 = Field(matches[j][2])]_vars

\* a finished call of 5 players over 2 rounds: the rows are the Match of
\* round 1, the Bye entry of round 1, the Match of round 2, the Bye entry of
\* round 2
C20_Witness ==
    /\ pc = "done"
    /\ NumPlayers = 5
    /\ Len(all_rounds) = 4
    /\ [i \in 1..4 |-> all_rounds[i].Round] = <<1, 1, 2, 2>>
    /\ [i \in 1..4 |-> IsBye(all_rounds[i])] = <<FALSE, TRUE, FALSE, TRUE>>
====
